---- MODULE Spec2Model ----
(***************************************************************************)
(* Model of plots_with_error_bars (Scripts/Notebooks/charts.py).           *)
(*                                                                         *)
(* One invocation is a walk of pc through the statements of the function:  *)
(*   figure -> read -> loop* -> source -> plot -> range -> hover -> done   *)
(* or                                                   range -> raised    *)
(* The data frame is a sequence of rows (id, mean, error).  The value the  *)
(* charting library gives p.y_range.start when the figure is created is an *)
(* input of the function: None or a number.  Python's None is <<>> and a   *)
(* present number v is <<v>>.  Python lists are sequences (index k of the  *)
(* list is index k+1 of the sequence).  Means and errors are integers.     *)
(***************************************************************************)
EXTENDS Integers, Sequences, FiniteSets, TLC

\* ---- bounds and input domains ------------------------------------------
MaxLen == 2

Means == {-15, -10, 5, 42, 50}
Errors == {-2, 0, 3}
PriorBounds == {<<>>, <<0>>, <<-30>>, <<30>>, <<45>>}
Labels == <<"A", "B", "C", "D", "E", "F">>

\* the rounding grid of lines 40 and 42
Grid == 10

None == <<>>
Some(v) == <<v>>

\* every data frame of n rows: row k carries the k-th label
Row(k, m, e) == [id |-> Labels[k], mean |-> m, error |-> e]
FramesOfLen(n) ==
    { [k \in 1..n |-> Row(k, ms[k], es[k])] :
        ms \in [1..n -> Means], es \in [1..n -> Errors] }
DataFrames == UNION { FramesOfLen(n) : n \in 0..MaxLen }

VARIABLES
    data_frame,     \* the argument data_frame
    y_range_start,  \* p.y_range.start
    pc,             \* position in the function body
    ys, xs, ids, yerrs,   \* locals of lines 16-19
    i,              \* number of zip items consumed by the for loop
    err_xs, err_ys, \* locals of lines 22-23
    source,         \* local of lines 29-33
    multi_line,     \* what p.multi_line was given (line 36)
    circle,         \* what p.circle was given (line 37)
    floor_bound,    \* value of math.floor(min(ys) / 10) * 10 once computed
    prior,          \* p.y_range.start as the figure was created
    mode,           \* how this invocation relates to the previous one
    prev            \* result of the previous invocation, None for the first

vars == <<data_frame, y_range_start, pc, ys, xs, ids, yerrs, i, err_xs,
          err_ys, source, multi_line, circle, floor_bound, prior, mode, prev>>

locals == <<ys, xs, ids, yerrs, i, err_xs, err_ys, source>>

\* ---- pure helpers, computed as the code computes them -------------------

\* data_frame["mean"].values, data_frame["error"].values, data_frame.index
Column(df, name) ==
    [k \in 1..Len(df) |->
        IF name = "mean" THEN df[k].mean
        ELSE IF name = "error" THEN df[k].error
        ELSE df[k].id]

\* list(range(n))
RangeOneBased(n) == [k \in 1..n |-> k]
Range(n) == [k \in 1..n |-> k - 1]

Min2(a, b) == IF b < a THEN b ELSE a
Max2(a, b) == IF b > a THEN b ELSE a

\* number of items zip(xs, ys, yerrs) yields: the shortest argument
ZipLenShort(a, b, c) == Max2(0, Min2(Len(a), Min2(Len(b), Len(c))) - 1)
ZipLen(a, b, c) == Min2(Len(a), Min2(Len(b), Len(c)))

\* (x, x)
ErrX(x) == <<x, x>>

\* (y - yerr, y + yerr)
ErrYSwapped(y, yerr) == <<y + yerr, y - yerr>>
ErrYAbs(y, yerr) == IF yerr < 0 THEN <<y + yerr, y - yerr>> ELSE <<y - yerr, y + yerr>>
ErrY(y, yerr) == <<y - yerr, y + yerr>>

\* builtin min over a sequence: left fold keeping the smaller item;
\* ValueError on an empty sequence
RECURSIVE FoldMin(_, _, _)
FoldMin(s, k, best) ==
    IF k > Len(s) THEN best
    ELSE FoldMin(s, k + 1, IF s[k] < best THEN s[k] ELSE best)

PyMinDefault(s) ==
    IF Len(s) = 0 THEN [ok |-> TRUE, val |-> 0]
    ELSE [ok |-> TRUE, val |-> FoldMin(s, 2, s[1])]
PyMin(s) ==
    IF Len(s) = 0 THEN [ok |-> FALSE, val |-> 0]
    ELSE [ok |-> TRUE, val |-> FoldMin(s, 2, s[1])]

\* math.floor(m / 10) * 10  (\div rounds toward minus infinity)
TruncDiv(a, b) == IF a < 0 THEN -((-a) \div b) ELSE a \div b
FloorBoundTrunc(m) == TruncDiv(m, Grid) * Grid
FloorBound(m) == (m \div Grid) * Grid

\* truthiness of p.y_range.start: None and 0 are false
Truthy(o) == o # None /\ o[1] # 0

\* lines 39-42: the value assigned to p.y_range.start
LowerBoundMax(start, m) ==
    IF Truthy(start) THEN Max2(start[1], FloorBound(m)) ELSE FloorBound(m)
LowerBoundNotNone(start, m) ==
    IF start # None THEN Min2(start[1], FloorBound(m)) ELSE FloorBound(m)
LowerBoundMargin(start, m) ==
    IF Truthy(start) THEN Min2(start[1], FloorBound(m)) - Grid ELSE FloorBound(m)
LowerBound(start, m) ==
    IF Truthy(start) THEN Min2(start[1], FloorBound(m)) ELSE FloorBound(m)

EmptySource == [xs |-> <<>>, ys |-> <<>>, ids |-> <<>>, error |-> <<>>]
NoLines == [xs |-> <<>>, ys |-> <<>>]

\* what one finished invocation produced
Result ==
    [positions |-> source.xs,
     points    |-> [k \in 1..Len(circle.xs) |-> <<circle.xs[k], circle.ys[k]>>],
     segments  |-> [k \in 1..Len(multi_line.xs) |->
                        <<multi_line.xs[k], multi_line.ys[k]>>],
     start     |-> y_range_start]

\* ---- the state machine --------------------------------------------------

Init ==
    /\ data_frame \in DataFrames
    /\ y_range_start = None
    /\ pc = "figure"
    /\ ys = <<>> /\ xs = <<>> /\ ids = <<>> /\ yerrs = <<>>
    /\ i = 0
    /\ err_xs = <<>> /\ err_ys = <<>>
    /\ source = EmptySource
    /\ multi_line = NoLines
    /\ circle = EmptySource
    /\ floor_bound = None
    /\ prior = None
    /\ mode = "first"
    /\ prev = None

\* lines 10-14: the figure is created; its y range start is whatever the
\* library (or the caller's environment) supplies
Figure(b) ==
    /\ pc = "figure"
    /\ CASE mode = "first"    -> b \in PriorBounds
         [] mode = "same"     -> b = prior
         [] mode = "feedback" -> b = prev[1].start
    /\ y_range_start' = b
    /\ prior' = b
    /\ pc' = "read"
    /\ UNCHANGED <<data_frame, locals, multi_line, circle, floor_bound, mode, prev>>

\* lines 16-23
ReadColumns ==
    /\ pc = "read"
    /\ ys' = Column(data_frame, "mean")
    /\ xs' = Range(Len(Column(data_frame, "mean")))
    /\ ids' = Column(data_frame, "index")
    /\ yerrs' = Column(data_frame, "error")
    /\ err_xs' = <<>>
    /\ err_ys' = <<>>
    /\ i' = 0
    /\ pc' = "loop"
    /\ UNCHANGED <<data_frame, y_range_start, source, multi_line, circle,
                   floor_bound, prior, mode, prev>>

\* lines 25-27: one iteration of the for loop
LoopStep ==
    /\ pc = "loop"
    /\ i < ZipLen(xs, ys, yerrs)
    /\ err_xs' = Append(err_xs, ErrX(xs[i + 1]))
    /\ err_ys' = Append(err_ys, ErrY(ys[i + 1], yerrs[i + 1]))
    /\ i' = i + 1
    /\ UNCHANGED <<data_frame, y_range_start, pc, ys, xs, ids, yerrs, source,
                   multi_line, circle, floor_bound, prior, mode, prev>>

\* line 25: zip is exhausted
LoopExit ==
    /\ pc = "loop"
    /\ ~(i < ZipLen(xs, ys, yerrs))
    /\ pc' = "source"
    /\ UNCHANGED <<data_frame, y_range_start, locals, multi_line, circle,
                   floor_bound, prior, mode, prev>>

\* lines 29-33
BuildSource ==
    /\ pc = "source"
    /\ source' = [xs |-> xs, ys |-> ys, ids |-> ids, error |-> yerrs]
    /\ pc' = "plot"
    /\ UNCHANGED <<data_frame, y_range_start, ys, xs, ids, yerrs, i, err_xs,
                   err_ys, multi_line, circle, floor_bound, prior, mode, prev>>

\* lines 36-37
Plot ==
    /\ pc = "plot"
    /\ multi_line' = [xs |-> err_xs, ys |-> err_ys]
    /\ circle' = source
    /\ pc' = "range"
    /\ UNCHANGED <<data_frame, y_range_start, locals, floor_bound, prior, mode, prev>>

\* lines 39-42: both branches evaluate min(ys) before anything is assigned
SetRange ==
    /\ pc = "range"
    /\ LET m == PyMin(ys) IN
         IF m.ok
         THEN /\ floor_bound' = Some(FloorBound(m.val))
              /\ y_range_start' = Some(LowerBound(y_range_start, m.val))
              /\ pc' = "hover"
         ELSE /\ pc' = "raised"
              /\ UNCHANGED <<floor_bound, y_range_start>>
    /\ UNCHANGED <<data_frame, locals, multi_line, circle, prior, mode, prev>>

\* lines 45-46
Show ==
    /\ pc = "hover"
    /\ pc' = "done"
    /\ UNCHANGED <<data_frame, y_range_start, locals, multi_line, circle,
                   floor_bound, prior, mode, prev>>

\* the function has returned and is called again on the same data frame with
\* a fresh frame and a fresh figure: either with the prior bound of the
\* last call ("same") or with the bound the last call produced ("feedback")
Reinvoke(md) ==
    /\ pc = "done"
    /\ prev' = Some(Result)
    /\ mode' = md
    /\ pc' = "figure"
    /\ y_range_start' = None
    /\ ys' = <<>> /\ xs' = <<>> /\ ids' = <<>> /\ yerrs' = <<>>
    /\ i' = 0
    /\ err_xs' = <<>> /\ err_ys' = <<>>
    /\ source' = EmptySource
    /\ multi_line' = NoLines
    /\ circle' = EmptySource
    /\ floor_bound' = None
    /\ UNCHANGED <<data_frame, prior>>

Next ==
    \/ \E b \in PriorBounds \cup {prior} \cup {prev[k].start : k \in 1..Len(prev)} : Figure(b)
    \/ ReadColumns
    \/ LoopStep
    \/ LoopExit
    \/ BuildSource
    \/ Plot
    \/ SetRange
    \/ Show
    \/ \E md \in {"same", "feedback"} : Reinvoke(md)

Spec == Init /\ [][Next]_vars

\* ---- reference definitions used by the properties -----------------------

\* the least mean of the input, by definition rather than by folding
LeastMean ==
    CHOOSE m \in {data_frame[k].mean : k \in 1..Len(data_frame)} :
        \A k \in 1..Len(data_frame) : m <= data_frame[k].mean

\* the multiple of 10 in (m - 10, m]
GridFloor(m) == CHOOSE f \in (m - Grid + 1)..m : f % Grid = 0

NonEmpty == Len(data_frame) > 0
Finished == pc \in {"hover", "done"}
Plotted == pc \in {"range", "hover", "done", "raised"}
Segments == Result.segments
Points == Result.points
Positions == Result.positions

\* ---- properties ----------------------------------------------------------

\* C1: with a prior bound supplied (any value, 0 included) and a non-empty
\* input the resulting bound is min(prior, floor(min(means)/10)*10); with no
\* prior bound it is floor(min(means)/10)*10.
C1_PriorBoundMin ==
    (Finished /\ NonEmpty) =>
        IF prior # None
        THEN y_range_start = Some(Min2(prior[1], GridFloor(LeastMean)))
        ELSE y_range_start = Some(GridFloor(LeastMean))

\* C2: for a non-empty input the resulting bound never exceeds
\* floor(min(means)/10)*10, and equals it when no prior bound was supplied.
C2_BoundAtMostFloor ==
    (Finished /\ NonEmpty) =>
        /\ y_range_start # None
        /\ y_range_start[1] <= GridFloor(LeastMean)
        /\ (prior = None => y_range_start[1] = GridFloor(LeastMean))

C2_Witness ==
    /\ pc = "done"
    /\ prior = Some(30)
    /\ y_range_start = Some(30)
    /\ GridFloor(LeastMean) = 40

\* C3: the segment emitted for the sample at index i is
\* ((i, i), (mean_i - error_i, mean_i + error_i)), in input order; the same
\* holds of the part of the lists built so far while the loop runs.
C3_SegmentGeometry ==
    /\ \A k \in 1..Len(err_xs) :
          /\ k <= Len(data_frame) /\ k <= Len(err_ys)
          /\ err_xs[k] = <<k - 1, k - 1>>
          /\ err_ys[k] = <<data_frame[k].mean - data_frame[k].error,
                           data_frame[k].mean + data_frame[k].error>>
    /\ Plotted =>
          \A k \in 1..Len(data_frame) :
              /\ k <= Len(Segments)
              /\ Segments[k] =
                    << <<k - 1, k - 1>>,
                       <<data_frame[k].mean - data_frame[k].error,
                         data_frame[k].mean + data_frame[k].error>> >>

C3_Witness ==
    /\ pc = "done"
    /\ Len(data_frame) = 2
    /\ Segments = << << <<0, 0>>, <<47, 53>> >>, << <<1, 1>>, <<39, 45>> >> >>

\* C4: a non-empty input of n samples yields exactly n positions, n scatter
\* points and n segments.
C4_EqualLengths ==
    (Plotted /\ NonEmpty) =>
        /\ Len(Positions) = Len(data_frame)
        /\ Len(Points) = Len(data_frame)
        /\ Len(Segments) = Len(data_frame)

C4_Witness ==
    /\ pc = "done"
    /\ Len(data_frame) = MaxLen
    /\ Len(Segments) = MaxLen
    /\ Len(Points) = MaxLen

\* C5: positions are 0, 1, ..., n-1 and the i-th scatter point is
\* (i, mean_i): input order is kept.
C5_PositionsByIndex ==
    Plotted =>
        /\ Len(Positions) = Len(data_frame)
        /\ \A k \in 1..Len(Positions) : Positions[k] = k - 1
        /\ \A k \in 1..Len(data_frame) :
              /\ k <= Len(Points)
              /\ Points[k] = <<k - 1, data_frame[k].mean>>

C5_Witness ==
    /\ pc = "done"
    /\ Positions = <<0, 1>>
    /\ Points = << <<0, 50>>, <<1, 42>> >>

\* C6: the floor bound is a multiple of 10 with
\* min(means) - 10 < floorBound <= min(means); it lies above no mean.
C6_FloorRoundsDown ==
    floor_bound # None =>
        /\ NonEmpty
        /\ floor_bound[1] % Grid = 0
        /\ LeastMean - Grid < floor_bound[1]
        /\ floor_bound[1] <= LeastMean
        /\ \A k \in 1..Len(data_frame) : floor_bound[1] <= data_frame[k].mean

C6_Witness ==
    /\ pc = "done"
    /\ LeastMean = -15
    /\ floor_bound = Some(-20)

\* C7: a second invocation on the same samples with the same prior bound
\* yields the same positions, points, segments and bound; with the bound of
\* the first invocation fed back as prior bound the geometry and the bound
\* are unchanged.
C7_Idempotent ==
    (pc = "done" /\ prev # None) =>
        /\ mode = "same" => Result = prev[1]
        /\ mode = "feedback" =>
              /\ prior = prev[1].start
              /\ Result.start = prev[1].start
              /\ Result.positions = prev[1].positions
              /\ Result.points = prev[1].points
              /\ Result.segments = prev[1].segments

C7_Witness ==
    /\ pc = "done"
    /\ mode = "feedback"
    /\ prev # None
    /\ prior = Some(30)
    /\ y_range_start = Some(30)
    /\ Len(data_frame) = 2

\* C8: on an empty input the invocation ends in an error when it takes the
\* minimum of the means: no bound is produced and p.y_range.start keeps the
\* value it had.
C8_EmptyInputRaises ==
    /\ ~NonEmpty =>
          /\ ~Finished
          /\ floor_bound = None
          /\ pc \notin {"figure"} => y_range_start = prior
    /\ pc = "raised" => (~NonEmpty /\ y_range_start = prior /\ floor_bound = None)

C8_Witness ==
    /\ pc = "raised"
    /\ Len(data_frame) = 0
    /\ prior = Some(30)
    /\ y_range_start = Some(30)

\* C9: errors are not validated: a sample with a negative error is not
\* rejected and its segment has its first y endpoint strictly above the
\* second; with an error >= 0 the endpoints enclose the mean.
C9_NegativeErrorInverts ==
    /\ (pc = "raised") => \A k \in 1..Len(data_frame) : data_frame[k].error >= 0
    /\ Plotted =>
          \A k \in 1..Len(data_frame) :
              /\ k <= Len(Segments)
              /\ data_frame[k].error < 0 =>
                    /\ Segments[k] =
                          << <<k - 1, k - 1>>,
                             <<data_frame[k].mean - data_frame[k].error,
                               data_frame[k].mean + data_frame[k].error>> >>
                    /\ Segments[k][2][1] > Segments[k][2][2]
              /\ data_frame[k].error >= 0 =>
                    /\ Segments[k][2][1] <= data_frame[k].mean
                    /\ data_frame[k].mean <= Segments[k][2][2]

C9_Witness ==
    /\ pc = "done"
    /\ \E k \in 1..Len(data_frame) :
          /\ data_frame[k].error < 0
          /\ Segments[k][2][1] > Segments[k][2][2]

\* C10: a prior bound of 0 is treated as no prior bound: the result is
\* floor(min(means)/10)*10 and may exceed 0; with a non-zero prior bound the
\* result never exceeds the prior bound.
C10_ZeroPriorIgnored ==
    (Finished /\ NonEmpty) =>
        /\ prior = Some(0) => y_range_start = Some(GridFloor(LeastMean))
        /\ (prior # None /\ prior # Some(0)) =>
              (y_range_start # None /\ y_range_start[1] <= prior[1])

C10_Witness ==
    /\ pc = "done"
    /\ prior = Some(0)
    /\ \A k \in 1..Len(data_frame) : data_frame[k].mean >= 10
    /\ y_range_start # None
    /\ y_range_start[1] > 0

====
